---- MODULE Spec2Model ----
(***************************************************************************)
(* Model of mapproxy/script/export.py: the level-range parser              *)
(* (parse_levels), the compatibility check (supports_tiled_access) and     *)
(* the export command (export_command), which resolves the command line    *)
(* into a SeedTask and hands it to the seeding engine.                     *)
(*                                                                         *)
(* Python strings that the code inspects character by character            *)
(* (options.levels) are sequences of one-character strings.  Strings that  *)
(* the code only compares or passes on are TLA+ strings.                   *)
(***************************************************************************)
EXTENDS Integers, Sequences, FiniteSets, TLC

VARIABLES
    pc,             \* position in the function being run
    args,           \* positional arguments left after option parsing
    options,        \* the optparse result (options.mapproxy_conf, .grid, ...)
    conf_sources,   \* conf.sources: source name -> source.conf['seed_only']
    conf_grids,     \* names in conf.grids
    custom_grid,    \* the local custom_grid
    cache_conf,     \* the local cache_conf dict
    tile_grid,      \* tile_grid returned by caches()[0]: its .levels
    mgr,            \* mgr returned by caches()[0]: the flags of mgr.sources
    levels,         \* what parse_levels returned or raised
    tiled,          \* what supports_tiled_access returned or raised
    dest_exists,    \* what os.path.exists(options.dest) answered
    seed_coverage,  \* the local seed_coverage
    outcome,        \* how the run ended: return, sys.exit(code), exception
    calls           \* how often each collaborator has been called

vars == <<pc, args, options, conf_sources, conf_grids, custom_grid, cache_conf,
          tile_grid, mgr, levels, tiled, dest_exists, seed_coverage, outcome,
          calls>>

----------------------------------------------------------------------------
(* Bounds of the model *)

\* longest level string of the parser's own specification
MaxLen == 6
\* most levels a destination grid has
MaxGridLevels == 5
\* most sources of a tile manager
MaxSources == 3
\* number of sources of the loaded configuration
NumConfSources == 2

----------------------------------------------------------------------------
(* Python values *)

None == "<None>"

Digits == {"0", "1", "2", "3", "4", "5", "6", "7", "8", "9"}

DigitVal(c) ==
    CASE c = "0" -> 0 [] c = "1" -> 1 [] c = "2" -> 2 [] c = "3" -> 3
      [] c = "4" -> 4 [] c = "5" -> 5 [] c = "6" -> 6 [] c = "7" -> 7
      [] c = "8" -> 8 [] c = "9" -> 9

\* the characters str.strip() and int() treat as whitespace
Whitespace == {" "}

\* characters of the level strings explored
Alphabet == {"1", "2", ".", ",", " ", "-", "a"}

IsDigits(s) == Len(s) > 0 /\ \A i \in 1..Len(s) : s[i] \in Digits

RECURSIVE DecimalValue(_)
DecimalValue(s) ==
    IF Len(s) = 0 THEN 0
    ELSE 10 * DecimalValue(SubSeq(s, 1, Len(s) - 1)) + DigitVal(s[Len(s)])

\* str.strip(): leading and trailing whitespace removed
RECURSIVE Strip(_)
Strip(s) ==
    IF Len(s) = 0 THEN s
    ELSE IF s[1] \in Whitespace THEN Strip(Tail(s))
    ELSE IF s[Len(s)] \in Whitespace THEN Strip(SubSeq(s, 1, Len(s) - 1))
    ELSE s

\* first index >= from at which sep starts in s, 0 if none
RECURSIVE Find(_, _, _)
Find(s, sep, from) ==
    IF from + Len(sep) - 1 > Len(s) THEN 0
    ELSE IF SubSeq(s, from, from + Len(sep) - 1) = sep THEN from
    ELSE Find(s, sep, from + 1)

\* str.split(sep): the pieces between the non-overlapping occurrences of sep,
\* found left to right
RECURSIVE Split(_, _)
Split(s, sep) ==
    LET i == Find(s, sep, 1) IN
    IF i = 0 THEN <<s>>
    ELSE <<SubSeq(s, 1, i - 1)>> \o Split(SubSeq(s, i + Len(sep), Len(s)), sep)

\* int(s) of a str: whitespace around it is ignored, one sign is allowed,
\* then decimal digits only; anything else is a ValueError
PyInt(s) ==
    LET t == Strip(s)
        signed == Len(t) > 0 /\ t[1] \in {"-", "+"}
        d == IF signed THEN Tail(t) ELSE t
    IN  IF IsDigits(d)
        THEN [exc |-> None,
              val |-> IF signed /\ t[1] = "-" THEN 0 - DecimalValue(d)
                      ELSE DecimalValue(d)]
        ELSE [exc |-> "ValueError", val |-> 0]

\* re.match('\d+..\d+', part): anchored at the start only; each '.' of the
\* pattern is unescaped and matches any one character (none of Alphabet is a
\* newline)
ReMatchRange(part) ==
    \E i \in 1..Len(part) :
        /\ \A k \in 1..i : part[k] \in Digits
        /\ i + 3 <= Len(part)
        /\ part[i + 3] \in Digits

\* range(a, b + 1) as a set
PyRange(a, b) == a..b

\* sorted(levels) of a set of integers
Sorted(S) ==
    IF S = {} THEN <<>>
    ELSE LET lo == CHOOSE x \in S : \A y \in S : x <= y
             hi == CHOOSE x \in S : \A y \in S : x >= y
         IN  SelectSeq([i \in 1..(hi - lo + 1) |-> lo + i - 1],
                       LAMBDA x : x \in S)

----------------------------------------------------------------------------
(* parse_levels *)

\* one pass of the loop body: the levels the part adds, or the exception
LevelsOfPart(rawpart) ==
    LET part == Strip(rawpart) IN
    IF ReMatchRange(part)
    THEN LET pieces == Split(part, <<".", ".">>) IN
         IF Len(pieces) # 2
         THEN [exc |-> "ValueError", val |-> {}]     \* unpacking fails
         ELSE LET from_level == PyInt(pieces[1])
                  to_level == PyInt(pieces[2])
              IN  IF from_level.exc # None \/ to_level.exc # None
                  THEN [exc |-> "ValueError", val |-> {}]
                  ELSE [exc |-> None,
                        val |-> PyRange(from_level.val, to_level.val)]
    ELSE LET n == PyInt(part) IN
         IF n.exc # None THEN [exc |-> "ValueError", val |-> {}]
         ELSE [exc |-> None, val |-> {n.val}]

\* parse_levels(level_str): the sorted list, or the exception of the first
\* part that raises
parse_levels(level_str) ==
    LET parts == Split(level_str, <<",">>)
        res == [i \in 1..Len(parts) |-> LevelsOfPart(parts[i])]
    IN  IF \E i \in 1..Len(parts) : res[i].exc # None
        THEN [exc |-> "ValueError", val |-> <<>>]
        ELSE [exc |-> None,
              val |-> Sorted(UNION {res[i].val : i \in 1..Len(parts)})]

----------------------------------------------------------------------------
(* supports_tiled_access *)

\* what getattr(source, 'supports_meta_tiles') can find on a source
FlagValues == {"True", "False", "None", "absent"}

\* supports_tiled_access(mgr): getattr without a default raises
\* AttributeError when the source has no such attribute, and is only
\* evaluated when len(mgr.sources) == 1
supports_tiled_access(sources) ==
    IF Len(sources) = 1
    THEN IF sources[1] = "absent"
         THEN [exc |-> "AttributeError", val |-> FALSE]
         ELSE [exc |-> None, val |-> sources[1] = "False"]
    ELSE [exc |-> None, val |-> FALSE]

----------------------------------------------------------------------------
(* export_command: inputs *)

\* a Python str given as its characters
LevelStrings ==
    { <<"0">>,
      <<"1", ".", ".", "3">>,
      <<"4">>,
      <<"1", "0">>,
      <<"3", ".", ".", "1">>,
      <<"a">> }

\* --grid values: the name of a grid of the configuration, or inline
\* definitions.  GridTokens gives shlex.split(definition) with every token
\* already cut at '=' (arg.split('=')).
GridValues ==
    { "osm_grid",
      "res=[1000,100] srs=EPSG:4326",
      "res=[1000,100] srs",
      "res=[1000,100] foo=1" }

GridTokens(g) ==
    CASE g = "res=[1000,100] srs=EPSG:4326" ->
             << <<"res", "[1000,100]">>, <<"srs", "EPSG:4326">> >>
      [] g = "res=[1000,100] srs" ->
             << <<"res", "[1000,100]">>, <<"srs">> >>
      [] g = "res=[1000,100] foo=1" ->
             << <<"res", "[1000,100]">>, <<"foo", "1">> >>
      [] OTHER -> << <<g>> >>

\* '=' in options.grid
HasEquals(g) == \E i \in 1..Len(GridTokens(g)) : Len(GridTokens(g)[i]) > 1

\* the option names conf_spec.grid_opts recognizes
GridOptKeys == {"res", "srs", "bbox", "tile_size", "origin"}

TypeValues == {"mbtile", "tc", "mapproxy", "tms", None, "mbtiles"}

SourceNames == 1..NumConfSources

Collaborators ==
    {"load_configuration", "parse_grid_definition", "os.path.exists",
     "source.conf", "caches", "parse_levels", "load_coverage", "SeedTask",
     "seed_task"}

\* calls after n more calls of collaborator c
CalledTimes(c, n) == [calls EXCEPT ![c] = @ + n]
Called(c) == CalledTimes(c, 1)

Running == [kind |-> "running", code |-> 0, msg |-> "", arg |-> 0]
Returned == [kind |-> "returned", code |-> 0, msg |-> "", arg |-> 0]
\* sys.exit(code) after printing msg (formatted with arg)
Exit(code, msg, arg) == [kind |-> "exit", code |-> code, msg |-> msg, arg |-> arg]
\* an exception that leaves export_command
Raised(exc) == [kind |-> "raised", code |-> 0, msg |-> exc, arg |-> 0]

Unparsed == [exc |-> "unparsed", val |-> <<>>]
Uncalled == [exc |-> "uncalled", val |-> FALSE]

----------------------------------------------------------------------------
(* export_command: the decisions it takes *)

required_options == <<"mapproxy_conf", "grid", "source", "dest", "levels">>

\* not getattr(options, required): an option that was not given is None, and
\* an empty string is as false as None (options.levels, a str kept as its
\* characters, is <<>> in both cases)
Falsy(opts, required) ==
    IF required = "levels" THEN opts.levels = <<>> ELSE opts[required] = None

\* the first required option that is missing, None if there is none
MissingRequired(opts) ==
    LET missing == {i \in 1..Len(required_options) : Falsy(opts, required_options[i])}
    IN  IF missing = {} THEN None
        ELSE required_options[CHOOSE i \in missing : \A j \in missing : i <= j]

\* parse_grid_definition(definition): the keys of grid_conf, or the exception
parse_grid_definition(definition) ==
    LET toks == GridTokens(definition) IN
    IF \E i \in 1..Len(toks) : Len(toks[i]) # 2
    THEN [exc |-> "ValueError", val |-> {}]          \* unpacking fails
    ELSE LET keys == {toks[i][1] : i \in 1..Len(toks)} IN
         IF keys \subseteq GridOptKeys
         THEN [exc |-> None, val |-> keys]
         ELSE [exc |-> "ValidationError", val |-> {}]

\* lines 195-199: cache_conf before the --type branches
BaseCacheConf(opts) ==
    [name |-> "export", grids |-> <<opts.grid>>, sources |-> <<opts.source>>]

\* cache_conf['cache'] = cache
WithCache(conf, cache) ==
    [name |-> conf.name, grids |-> conf.grids, sources |-> conf.sources,
     cache |-> cache]

\* a slip: every unknown --type falls through to the default backend
CacheConf_unknown_is_default(opts) ==
    IF opts.type = "mbtile"
    THEN WithCache(BaseCacheConf(opts),
                   [type |-> "mbtiles", filename |-> opts.dest])
    ELSE IF opts.type \in {"tc", "mapproxy"}
    THEN WithCache(BaseCacheConf(opts),
                   [type |-> "file", directory |-> opts.dest])
    ELSE WithCache(BaseCacheConf(opts),
                   [type |-> "file", directory_layout |-> "tms",
                    directory |-> opts.dest])

\* a slip: 'mapproxy' is grouped with 'tms' instead of with 'tc'
CacheConf_mapproxy_is_tms(opts) ==
    IF opts.type = "mbtile"
    THEN WithCache(BaseCacheConf(opts),
                   [type |-> "mbtiles", filename |-> opts.dest])
    ELSE IF opts.type \in {"tc"}
    THEN WithCache(BaseCacheConf(opts),
                   [type |-> "file", directory |-> opts.dest])
    ELSE IF opts.type \in {"tms", "mapproxy", None}
    THEN WithCache(BaseCacheConf(opts),
                   [type |-> "file", directory_layout |-> "tms",
                    directory |-> opts.dest])
    ELSE BaseCacheConf(opts)

\* lines 195-218: cache_conf, with its 'cache' entry when --type is known
CacheConf(opts) ==
    IF opts.type = "mbtile"
    THEN WithCache(BaseCacheConf(opts),
                   [type |-> "mbtiles", filename |-> opts.dest])
    ELSE IF opts.type \in {"tc", "mapproxy"}
    THEN WithCache(BaseCacheConf(opts),
                   [type |-> "file", directory |-> opts.dest])
    ELSE IF opts.type \in {"tms", None}
    THEN WithCache(BaseCacheConf(opts),
                   [type |-> "file", directory_layout |-> "tms",
                    directory |-> opts.dest])
    ELSE BaseCacheConf(opts)

\* a slip: --force read the wrong way round
DestinationBlocked_force_inverted(exists, force) == exists /\ force

\* line 190
DestinationBlocked(exists, force) == exists /\ ~force

\* a slip: the flag read the wrong way round
SeedOnlyMarked_inverted(sources, fetch_missing_tiles) ==
    IF fetch_missing_tiles THEN [s \in DOMAIN sources |-> TRUE] ELSE sources

\* lines 220-222
SeedOnlyMarked(sources, fetch_missing_tiles) ==
    IF ~fetch_missing_tiles THEN [s \in DOMAIN sources |-> TRUE] ELSE sources

\* a slip: the level count itself taken for a valid level
LevelOutOfRange_off_by_one(lv, grid_levels) == lv[Len(lv)] > grid_levels

\* line 228: levels[-1] >= tile_grid.levels
LevelOutOfRange(lv, grid_levels) == lv[Len(lv)] >= grid_levels

----------------------------------------------------------------------------
(* export_command: one action per step between two collaborator calls.

   Collaborators answer nondeterministically where the command depends on
   the answer: load_configuration, os.path.exists, caches() (the depth of
   the grid, the flags of the sources), load_coverage and seed_task.
   yaml.load, GridConfiguration, SRS, SeedTask, format_export_task and
   ProgressLog are taken to return; --dry-run, --concurrency, --srs and
   --where are only passed on and are left out of options. *)

OptionValues ==
    [mapproxy_conf : {None, "mapproxy.yaml"},
     grid : GridValues \cup {None},
     source : {None, "osm"},
     dest : {None, "/out"},
     type : TypeValues,
     levels : LevelStrings \cup {<<>>},
     fetch_missing_tiles : BOOLEAN,
     force : BOOLEAN,
     coverage : {None, "coverage.shp"}]

\* state of the locals before anything ran
Fresh ==
    /\ conf_grids = {"osm_grid"}
    /\ custom_grid = FALSE
    /\ cache_conf = [name |-> None]
    /\ tile_grid = [levels |-> 0]
    /\ mgr = [sources |-> <<>>]
    /\ levels = Unparsed
    /\ tiled = Uncalled
    /\ dest_exists = "unprobed"
    /\ seed_coverage = None
    /\ outcome = Running
    /\ calls = [c \in Collaborators |-> 0]

\* the state after parser.parse_args(args)
Init ==
    /\ pc = "parse_args"
    /\ options \in OptionValues
    /\ args \in {<<>>, <<"mapproxy.yaml">>}
    /\ options.mapproxy_conf # None => args = <<>>
    /\ conf_sources \in [SourceNames -> BOOLEAN]
    /\ Fresh

Finish(o) == pc' = "done" /\ outcome' = o

\* lines 148-153
PositionalConf ==
    /\ pc = "parse_args"
    /\ IF options.mapproxy_conf = None
       THEN IF Len(args) # 1
            THEN /\ Finish(Exit(1, "usage", 0))
                 /\ UNCHANGED options
            ELSE /\ options' = [options EXCEPT !.mapproxy_conf = args[1]]
                 /\ pc' = "required"
                 /\ UNCHANGED outcome
       ELSE /\ pc' = "required"
            /\ UNCHANGED <<options, outcome>>
    /\ UNCHANGED <<args, conf_sources, conf_grids, custom_grid, cache_conf,
                   tile_grid, mgr, levels, tiled, dest_exists, seed_coverage,
                   calls>>

\* lines 155-160
CheckRequired ==
    /\ pc = "required"
    /\ IF MissingRequired(options) # None
       THEN Finish(Exit(1, "missing required option", 0))
       ELSE pc' = "load_configuration" /\ UNCHANGED outcome
    /\ UNCHANGED <<args, options, conf_sources, conf_grids, custom_grid,
                   cache_conf, tile_grid, mgr, levels, tiled, dest_exists,
                   seed_coverage, calls>>

\* lines 162-169: load_configuration returns, or raises IOError or
\* ConfigurationError
LoadConfiguration ==
    /\ pc = "load_configuration"
    /\ calls' = Called("load_configuration")
    /\ \E result \in {"ok", "IOError", "ConfigurationError"} :
          IF result = "ok"
          THEN pc' = "grid" /\ UNCHANGED outcome
          ELSE IF result = "IOError"
          THEN Finish(Exit(2, "IOError", 0))
          ELSE Finish(Exit(2, "invalid configuration", 0))
    /\ UNCHANGED <<args, options, conf_sources, conf_grids, custom_grid,
                   cache_conf, tile_grid, mgr, levels, tiled, dest_exists,
                   seed_coverage>>

\* lines 172-188
ResolveGrid ==
    /\ pc = "grid"
    /\ IF HasEquals(options.grid)
       THEN LET grid_conf == parse_grid_definition(options.grid) IN
            /\ calls' = Called("parse_grid_definition")
            /\ IF grid_conf.exc # None
               THEN /\ Finish(Exit(2, "invalid grid configuration", 0))
                    /\ UNCHANGED <<options, custom_grid, conf_grids>>
               ELSE /\ options' = [options EXCEPT !.grid = "tmp_mapproxy_export_grid"]
                    /\ custom_grid' = TRUE
                    /\ conf_grids' = conf_grids \cup {"tmp_mapproxy_export_grid"}
                    /\ pc' = "dest"
                    /\ UNCHANGED outcome
       ELSE /\ custom_grid' = FALSE
            /\ pc' = "dest"
            /\ UNCHANGED <<options, conf_grids, outcome, calls>>
    /\ UNCHANGED <<args, conf_sources, cache_conf, tile_grid, mgr, levels,
                   tiled, dest_exists, seed_coverage>>

\* lines 190-192: os.path.exists answers for the file system
CheckDestination ==
    /\ pc = "dest"
    /\ calls' = Called("os.path.exists")
    /\ \E exists \in BOOLEAN :
          /\ dest_exists' = IF exists THEN "True" ELSE "False"
          /\ IF DestinationBlocked(exists, options.force)
             THEN Finish(Exit(2, "destination exists, remove first or use --force", 0))
             ELSE pc' = "type" /\ UNCHANGED outcome
    /\ UNCHANGED <<args, options, conf_sources, conf_grids, custom_grid,
                   cache_conf, tile_grid, mgr, levels, tiled, seed_coverage>>

\* lines 195-218
SelectBackend ==
    /\ pc = "type"
    /\ cache_conf' = CacheConf(options)
    /\ IF "cache" \in DOMAIN cache_conf'
       THEN pc' = "seed_only" /\ UNCHANGED outcome
       ELSE Finish(Exit(2, "unsupported --type", 0))
    /\ UNCHANGED <<args, options, conf_sources, conf_grids, custom_grid,
                   tile_grid, mgr, levels, tiled, dest_exists, seed_coverage,
                   calls>>

\* lines 220-222: one assignment to source.conf['seed_only'] for each source
MarkSeedOnly ==
    /\ pc = "seed_only"
    /\ conf_sources' = SeedOnlyMarked(conf_sources, options.fetch_missing_tiles)
    /\ calls' = CalledTimes("source.conf",
                            IF options.fetch_missing_tiles THEN 0
                            ELSE Cardinality(DOMAIN conf_sources))
    /\ pc' = "caches"
    /\ UNCHANGED <<args, options, conf_grids, custom_grid, cache_conf,
                   tile_grid, mgr, levels, tiled, dest_exists, seed_coverage,
                   outcome>>

\* line 224: the cache built for cache_conf has one source for each entry of
\* cache_conf['sources'], and a grid of some depth
BuildCache ==
    /\ pc = "caches"
    /\ calls' = Called("caches")
    /\ \E n \in 1..MaxGridLevels :
          tile_grid' = [levels |-> n]
    /\ \E flags \in [1..Len(cache_conf.sources) -> FlagValues] :
          mgr' = [sources |-> flags]
    /\ pc' = "parse_levels"
    /\ UNCHANGED <<args, options, conf_sources, conf_grids, custom_grid,
                   cache_conf, levels, tiled, dest_exists, seed_coverage,
                   outcome>>

\* line 227: a ValueError of parse_levels is not caught
ParseLevels ==
    /\ pc = "parse_levels"
    /\ calls' = Called("parse_levels")
    /\ levels' = parse_levels(options.levels)
    /\ IF levels'.exc # None
       THEN Finish(Raised(levels'.exc))
       ELSE pc' = "level_check" /\ UNCHANGED outcome
    /\ UNCHANGED <<args, options, conf_sources, conf_grids, custom_grid,
                   cache_conf, tile_grid, mgr, tiled, dest_exists,
                   seed_coverage>>

\* lines 228-230: levels[-1] of an empty list is an IndexError
CheckLevels ==
    /\ pc = "level_check"
    /\ IF levels.val = <<>>
       THEN Finish(Raised("IndexError"))
       ELSE IF LevelOutOfRange(levels.val, tile_grid.levels)
       THEN Finish(Exit(2, "destination grid only has %d levels", tile_grid.levels))
       ELSE pc' = "coverage" /\ UNCHANGED outcome
    /\ UNCHANGED <<args, options, conf_sources, conf_grids, custom_grid,
                   cache_conf, tile_grid, mgr, levels, tiled, dest_exists,
                   seed_coverage, calls>>

\* lines 232-242: load_coverage returns a coverage or raises; without
\* --coverage the coverage is the bbox of the grid
ResolveCoverage ==
    /\ pc = "coverage"
    /\ IF options.coverage # None
       THEN /\ calls' = Called("load_coverage")
            /\ \E loaded \in BOOLEAN :
                  IF loaded
                  THEN /\ seed_coverage' = "loaded coverage"
                       /\ pc' = "tiled_access"
                       /\ UNCHANGED outcome
                  ELSE /\ Finish(Raised("load_coverage error"))
                       /\ UNCHANGED seed_coverage
       ELSE /\ seed_coverage' = "BBOXCoverage(tile_grid.bbox)"
            /\ pc' = "tiled_access"
            /\ UNCHANGED <<outcome, calls>>
    /\ UNCHANGED <<args, options, conf_sources, conf_grids, custom_grid,
                   cache_conf, tile_grid, mgr, levels, tiled, dest_exists>>

\* lines 244-245: a false answer only prints a warning
CheckTiledAccess ==
    /\ pc = "tiled_access"
    /\ tiled' = supports_tiled_access(mgr.sources)
    /\ IF tiled'.exc # None
       THEN Finish(Raised(tiled'.exc))
       ELSE pc' = "task" /\ UNCHANGED outcome
    /\ UNCHANGED <<args, options, conf_sources, conf_grids, custom_grid,
                   cache_conf, tile_grid, mgr, levels, dest_exists,
                   seed_coverage, calls>>

\* lines 247-250
BuildTask ==
    /\ pc = "task"
    /\ calls' = Called("SeedTask")
    /\ pc' = "seed_task"
    /\ UNCHANGED <<args, options, conf_sources, conf_grids, custom_grid,
                   cache_conf, tile_grid, mgr, levels, tiled, dest_exists,
                   seed_coverage, outcome>>

\* lines 252-258: seed_task returns, is interrupted by the user, or raises an
\* error of its own, which is not caught
RunSeedTask ==
    /\ pc = "seed_task"
    /\ calls' = Called("seed_task")
    /\ \E result \in {"returns", "KeyboardInterrupt", "error"} :
          IF result = "returns" THEN Finish(Returned)
          ELSE IF result = "KeyboardInterrupt" THEN Finish(Exit(2, "stopping...", 0))
          ELSE Finish(Raised("seed_task error"))
    /\ UNCHANGED <<args, options, conf_sources, conf_grids, custom_grid,
                   cache_conf, tile_grid, mgr, levels, tiled, dest_exists,
                   seed_coverage>>

Next ==
    \/ PositionalConf
    \/ CheckRequired
    \/ LoadConfiguration
    \/ ResolveGrid
    \/ CheckDestination
    \/ SelectBackend
    \/ MarkSeedOnly
    \/ BuildCache
    \/ ParseLevels
    \/ CheckLevels
    \/ ResolveCoverage
    \/ CheckTiledAccess
    \/ BuildTask
    \/ RunSeedTask

Spec == Init /\ [][Next]_vars

----------------------------------------------------------------------------
(* parse_levels on its own: every level string up to MaxLen characters *)

NoOptions ==
    [mapproxy_conf |-> None, grid |-> None, source |-> None, dest |-> None,
     type |-> None, levels |-> <<>>, fetch_missing_tiles |-> FALSE,
     force |-> FALSE, coverage |-> None]

InitLevels ==
    /\ pc = "call parse_levels"
    /\ \E n \in 0..MaxLen : \E s \in [1..n -> Alphabet] :
          options = [NoOptions EXCEPT !.levels = s]
    /\ args = <<>>
    /\ conf_sources = [s \in SourceNames |-> FALSE]
    /\ Fresh

CallParseLevels ==
    /\ pc = "call parse_levels"
    /\ levels' = parse_levels(options.levels)
    /\ pc' = "parse_levels returned"
    /\ UNCHANGED <<args, options, conf_sources, conf_grids, custom_grid,
                   cache_conf, tile_grid, mgr, tiled, dest_exists,
                   seed_coverage, outcome, calls>>

NextLevels == CallParseLevels

SpecLevels == InitLevels /\ [][NextLevels]_vars

----------------------------------------------------------------------------
(* supports_tiled_access on its own: every manager of up to MaxSources
   sources *)

InitTiled ==
    /\ pc = "call supports_tiled_access"
    /\ \E n \in 0..MaxSources : \E flags \in [1..n -> FlagValues] :
          mgr = [sources |-> flags]
    /\ options = NoOptions
    /\ args = <<>>
    /\ conf_sources = [s \in SourceNames |-> FALSE]
    /\ conf_grids = {"osm_grid"}
    /\ custom_grid = FALSE
    /\ cache_conf = [name |-> None]
    /\ tile_grid = [levels |-> 0]
    /\ levels = Unparsed
    /\ tiled = Uncalled
    /\ dest_exists = "unprobed"
    /\ seed_coverage = None
    /\ outcome = Running
    /\ calls = [c \in Collaborators |-> 0]

CallSupportsTiledAccess ==
    /\ pc = "call supports_tiled_access"
    /\ tiled' = supports_tiled_access(mgr.sources)
    /\ pc' = "supports_tiled_access returned"
    /\ UNCHANGED <<args, options, conf_sources, conf_grids, custom_grid,
                   cache_conf, tile_grid, mgr, levels, dest_exists,
                   seed_coverage, outcome, calls>>

NextTiled == CallSupportsTiledAccess

SpecTiled == InitTiled /\ [][NextTiled]_vars

----------------------------------------------------------------------------
(* The level-spec grammar of the parser's contract, which the properties
   of parse_levels are stated against *)

\* the places where the range separator starts in token t
SeparatorAt(t) == {i \in 1..(Len(t) - 1) : t[i] = "." /\ t[i + 1] = "."}

LowerBound(t, i) == Strip(SubSeq(t, 1, i - 1))
UpperBound(t, i) == Strip(SubSeq(t, i + 2, Len(t)))

\* A..B with A <= B, whitespace allowed around the separator
WellFormedRange(t) ==
    \E i \in SeparatorAt(t) :
        /\ IsDigits(LowerBound(t, i))
        /\ IsDigits(UpperBound(t, i))
        /\ DecimalValue(LowerBound(t, i)) <= DecimalValue(UpperBound(t, i))

WellFormedToken(t) == IsDigits(t) \/ WellFormedRange(t)

\* the levels a well-formed token stands for
TokenLevels(t) ==
    IF IsDigits(t) THEN {DecimalValue(t)}
    ELSE UNION {DecimalValue(LowerBound(t, i))..DecimalValue(UpperBound(t, i)) :
                i \in {j \in SeparatorAt(t) : /\ IsDigits(LowerBound(t, j))
                                               /\ IsDigits(UpperBound(t, j))}}

Tokens(s) == LET parts == Split(s, <<",">>)
             IN  {Strip(parts[i]) : i \in 1..Len(parts)}

WellFormedSpec(s) == \A t \in Tokens(s) : WellFormedToken(t)

SpecLevelSet(s) == UNION {TokenLevels(t) : t \in Tokens(s)}

StrictlyIncreasing(q) == \A i \in 1..(Len(q) - 1) : q[i] < q[i + 1]

Members(q) == {q[i] : i \in 1..Len(q)}

\* the highest level of a non-empty level list
Highest(q) == CHOOSE x \in Members(q) : \A y \in Members(q) : y <= x

----------------------------------------------------------------------------
(* Properties *)

\* C1: for every well-formed level spec, parse_levels returns a strictly
\* increasing list whose members are exactly the union of the integers and
\* inclusive ranges of the spec.
C1_WellFormedParses ==
    (pc = "parse_levels returned" /\ WellFormedSpec(options.levels)) =>
        /\ levels.exc = None
        /\ StrictlyIncreasing(levels.val)
        /\ Members(levels.val) = SpecLevelSet(options.levels)

\* C2: parse_levels raises whenever some token of the spec is a range with
\* A > B, a bare token that is no non-negative integer, or a range with a
\* non-numeric bound.
C2_MalformedRaises ==
    (pc = "parse_levels returned" /\ ~WellFormedSpec(options.levels)) =>
        levels.exc # None

\* C3: supports_tiled_access returns a value in every case, and returns true
\* exactly when there is one source whose supports_meta_tiles is False.
C3_TiledAccessIff ==
    pc = "supports_tiled_access returned" =>
        /\ tiled.exc = None
        /\ tiled.val <=> (Len(mgr.sources) = 1 /\ mgr.sources[1] = "False")

UnsupportedType == Exit(2, "unsupported --type", 0)
DestinationExists == Exit(2, "destination exists, remove first or use --force", 0)
LevelError(n) == Exit(2, "destination grid only has %d levels", n)

\* C4: when the destination exists and --force is not set, the run ends with
\* the 'destination exists' error and status 2, and the cache builder, the
\* seed-only marking, SeedTask and seed_task have not been called.
C4_DestinationExistsStops ==
    (dest_exists = "True" /\ ~options.force) =>
        /\ pc = "done"
        /\ outcome = DestinationExists
        /\ calls["caches"] = 0
        /\ calls["source.conf"] = 0
        /\ calls["SeedTask"] = 0
        /\ calls["seed_task"] = 0

C4_Witness ==
    /\ dest_exists = "True"
    /\ ~options.force
    /\ pc = "done"
    /\ calls["load_configuration"] = 1

SupportedTypes == {"mbtile", "tc", "mapproxy", "tms", None}

\* C5: with a --type token outside the enumeration the destination path is
\* never probed, and the run never ends with the 'destination exists' error
\* in place of the 'unsupported --type' error.
C5_TypeBeforeFilesystem ==
    options.type \notin SupportedTypes =>
        /\ calls["os.path.exists"] = 0
        /\ outcome # DestinationExists

\* C6: once the level check has run on a parsed level list, the run has
\* failed with status 2 and a message holding the grid's level count, with
\* seed_task uncalled, if the highest level is >= that count; and the level
\* check has not failed if it is below it.
C6_LevelRange ==
    (levels.exc = None /\ levels.val # <<>> /\ pc # "level_check") =>
        IF Highest(levels.val) >= tile_grid.levels
        THEN /\ pc = "done"
             /\ outcome = LevelError(tile_grid.levels)
             /\ calls["seed_task"] = 0
        ELSE /\ outcome.msg # LevelError(tile_grid.levels).msg
             /\ outcome # Raised("IndexError")

C6_Witness ==
    /\ levels.val = <<10>>
    /\ tile_grid.levels = 5
    /\ outcome = LevelError(5)

\* C7: a run that does not end with an error of the seeding engine itself
\* ends with status 0 (seed_task returned), 1 (a required input is missing)
\* or 2 (every resolution, validation or interruption failure); none of them
\* leaves export_command as an exception.
C7_ExitStatus ==
    (pc = "done" /\ outcome # Raised("seed_task error")) =>
        /\ outcome.kind \in {"returned", "exit"}
        /\ outcome.kind = "returned" => calls["seed_task"] = 1
        /\ outcome.kind = "exit" =>
              /\ outcome.code \in {1, 2}
              /\ outcome.code = 1 <=> calls["load_configuration"] = 0

\* what the steps before seed_task leave behind when each of them succeeded
Resolved ==
    /\ MissingRequired(options) = None
    /\ calls["load_configuration"] = 1
    /\ options.grid \in conf_grids
    /\ custom_grid <=> calls["parse_grid_definition"] = 1
    /\ calls["os.path.exists"] = 1
    /\ dest_exists = "False" \/ (dest_exists = "True" /\ options.force)
    /\ options.type \in SupportedTypes
    /\ "cache" \in DOMAIN cache_conf
    /\ calls["caches"] = 1
    /\ calls["parse_levels"] = 1
    /\ levels.exc = None
    /\ levels.val # <<>>
    /\ Highest(levels.val) < tile_grid.levels
    /\ seed_coverage # None
    /\ options.coverage # None <=> calls["load_coverage"] = 1
    /\ calls["SeedTask"] = 1

FailedResolution ==
    /\ pc = "done"
    /\ outcome.kind \in {"exit", "raised"}
    /\ outcome # Exit(2, "stopping...", 0)
    /\ outcome # Raised("seed_task error")

\* C8: seed_task is called at most once, only when every earlier step has
\* succeeded, and never in a run that ends with a resolution or validation
\* failure.
C8_DispatchAfterResolution ==
    /\ calls["seed_task"] <= 1
    /\ calls["seed_task"] = 1 => Resolved
    /\ FailedResolution => calls["seed_task"] = 0

C8_Witness ==
    /\ calls["seed_task"] = 1
    /\ outcome = Returned
    /\ custom_grid
    /\ options.coverage # None

\* C9: once the backend has been selected, cache_conf['cache'] is the one
\* the --type token stands for, and a token outside the enumeration has
\* selected none and ended the run with 'unsupported --type' and status 2.
C9_BackendOfType ==
    cache_conf.name = "export" =>
        /\ options.type = "mbtile" =>
              cache_conf.cache = [type |-> "mbtiles", filename |-> options.dest]
        /\ options.type \in {"tc", "mapproxy"} =>
              cache_conf.cache = [type |-> "file", directory |-> options.dest]
        /\ options.type \in {"tms", None} =>
              cache_conf.cache = [type |-> "file", directory_layout |-> "tms",
                                  directory |-> options.dest]
        /\ options.type \notin SupportedTypes =>
              /\ "cache" \notin DOMAIN cache_conf
              /\ pc = "done"
              /\ outcome = UnsupportedType

C9_Witness ==
    /\ cache_conf.name = "export"
    /\ options.type = None
    /\ cache_conf.cache.directory_layout = "tms"
    /\ pc = "seed_only"

\* C10: without --fetch-missing-tiles every source of the configuration has
\* seed_only = True when caches() is called and when seed_task is called;
\* with --fetch-missing-tiles no step changes any source's seed_only.
C10_SeedOnly ==
    /\ []((~options.fetch_missing_tiles /\ pc \in {"caches", "seed_task"}) =>
              \A s \in DOMAIN conf_sources : conf_sources[s] = TRUE)
    /\ [][options.fetch_missing_tiles => conf_sources' = conf_sources]_vars

C10_Witness ==
    /\ ~options.fetch_missing_tiles
    /\ pc = "seed_task"
    /\ calls["source.conf"] = Cardinality(DOMAIN conf_sources)
    /\ \A s \in DOMAIN conf_sources : conf_sources[s] = TRUE

====
